---- MODULE Spec2Model ----
(***************************************************************************)
(* State-machine model of the Vue storefront view-model in src/app.js:     *)
(* the catalog load, subject selection, the cart operations and the        *)
(* asynchronous checkout.  Strings are sequences of one-character strings, *)
(* so that concatenation and the validation regexes are computed as the    *)
(* code computes them.  go(page) and imageUrl touch none of the state the   *)
(* properties below are about and are left out.                            *)
(***************************************************************************)
EXTENDS Integers, Sequences, FiniteSets, TLC

\* ------------------------------------------------------------------ bounds
MaxSpaces == 2       \* spaces of a served location
MaxCart == 3         \* cart length explored by the cart operations alone
MaxOrder == 2        \* cart length explored together with checkout
MaxInFlight == 1     \* checkout invocations that may be pending together
MaxRacing == 2       \* checkout invocations pending together when checkout is clicked again
MaxSold == 2         \* seats ordered in a session whose orders are recorded

\* ------------------------------------------------------------- input sets
Customers ==
  { [name |-> <<"J", "o", " ", "D">>, phone |-> <<"0", "7">>],
    [name |-> <<"J", "1">>, phone |-> <<"0", "7">>],
    [name |-> <<"J", "o", " ", "D">>, phone |-> <<"7", "x">>] }
Procs == 1 .. MaxInFlight
Racers == 1 .. MaxRacing
\* the invocation frames there are
Frames == Procs \cup Racers

Letters ==
  { "a", "b", "c", "d", "e", "f", "g", "h", "i", "j", "k", "l", "m",
    "n", "o", "p", "q", "r", "s", "t", "u", "v", "w", "x", "y", "z",
    "A", "B", "C", "D", "E", "F", "G", "H", "I", "J", "K", "L", "M",
    "N", "O", "P", "Q", "R", "S", "T", "U", "V", "W", "X", "Y", "Z" }
Digits == { "0", "1", "2", "3", "4", "5", "6", "7", "8", "9" }

EmptyStr == << >>
NoAlert == ""
OrderSubmitted == "Order submitted!"
LoadAlert == "Could not load lessons"
OrderAlert == "Error submitting order"

\* ---------------------------------------------------------------- catalogs
\* The catalogs GET /lessons may serve: two lessons, three locations, every
\* assignment of 0 .. MaxSpaces spaces to the locations.
Layout ==
  << [subject |-> <<"m">>,
      locations |-> << [city |-> <<"x">>, price |-> 5],
                       [city |-> <<"-", "x">>, price |-> 7] >>],
     [subject |-> <<"m", "-">>,
      locations |-> << [city |-> <<"x">>, price |-> 3] >>] >>

Slots ==
  UNION { { <<l, j>> : j \in 1 .. Len(Layout[l].locations) } : l \in 1 .. Len(Layout) }

Catalog(sp) ==
  [l \in 1 .. Len(Layout) |->
     [subject |-> Layout[l].subject,
      locations |->
        [j \in 1 .. Len(Layout[l].locations) |->
           [city |-> Layout[l].locations[j].city,
            price |-> Layout[l].locations[j].price,
            spaces |-> sp[<<l, j>>]]]]]

Catalogs == { Catalog(sp) : sp \in [Slots -> 0 .. MaxSpaces] }

\* the (subject, city) pairs of the catalogs
LayoutPairs ==
  { [subject |-> Layout[k[1]].subject, city |-> Layout[k[1]].locations[k[2]].city] :
      k \in Slots }

\* the catalog with every location full
FullCatalogs == { Catalog([s \in Slots |-> MaxSpaces]) }

\* ------------------------------------------------------------------- state
VARIABLES
  lessons,          \* this.lessons
  selectedSubject,  \* index into lessons of this.selectedSubject, 0 for null
  view,             \* this.view
  cart,             \* this.cart
  customer,         \* this.customer
  orderMessage,     \* this.orderMessage
  alert,            \* text of the alert dialog on screen, "" when there is none
  loadPc,           \* position of loadLessons
  loadResp,         \* response to GET /lessons waiting to be consumed
  served,           \* body of the GET /lessons response
  pc,               \* position of each checkout invocation
  resp,             \* response waiting to be consumed by each checkout
  items,            \* the groupedCart array each checkout's PUT loop iterates
  idx,              \* loop position of each checkout
  posted,           \* body of the POST the pending checkout sent
  puts,             \* bodies of the PUTs the pending checkout sent, in order
  searchQuery,      \* this.searchQuery
  subjectsSortDir,  \* this.subjectsSortDir
  sortOption,       \* this.sortOption
  sortDir,          \* this.sortDir
  suggestions,      \* this.suggestions
  ordered           \* history: the quantity each location has in the orders of
                    \* the checkouts that succeeded so far

vars == << lessons, selectedSubject, view, cart, customer, orderMessage, alert,
           loadPc, loadResp, served, pc, resp, items, idx, posted, puts,
           searchQuery, subjectsSortDir, sortOption, sortDir, suggestions,
           ordered >>

uiVars == << lessons, selectedSubject, view, cart, customer, orderMessage, alert >>
loadVars == << loadPc, loadResp, served >>
checkoutVars == << pc, resp, items, idx, posted, puts >>
viewVars == << searchQuery, subjectsSortDir, sortOption, sortDir, suggestions >>

NoBody == [sent |-> FALSE]

\* ------------------------------------------------------- computed properties
RECURSIVE IndexOfKey(_, _, _)
IndexOfKey(groups, key, i) ==
  IF i > Len(groups) THEN 0
  ELSE IF groups[i].key = key THEN i
  ELSE IndexOfKey(groups, key, i + 1)

Key(item) == item.subject \o <<"-">> \o item.city

\* if (!groups[key]) groups[key] = { ...item, quantity: 0 }
Ensure(groups, item) ==
  IF IndexOfKey(groups, Key(item), 1) = 0
  THEN Append(groups, [key |-> Key(item), subject |-> item.subject,
                       city |-> item.city, price |-> item.price, quantity |-> 0])
  ELSE groups

\* groups[key].quantity++
Bump(groups, item) ==
  [groups EXCEPT ![IndexOfKey(groups, Key(item), 1)].quantity = @ + 1]

RECURSIVE GroupFold(_, _, _)
GroupFold(c, i, groups) ==
  IF i > Len(c) THEN groups
  ELSE GroupFold(c, i + 1, Bump(Ensure(groups, c[i]), c[i]))

GroupedCartOf(c) ==
  LET groups == GroupFold(c, 1, << >>)
  IN [g \in 1 .. Len(groups) |->
        [subject |-> groups[g].subject, city |-> groups[g].city,
         price |-> groups[g].price, quantity |-> groups[g].quantity]]

groupedCart == GroupedCartOf(cart)

\* the elements of groupedCart
Groups == { groupedCart[g] : g \in 1 .. Len(groupedCart) }

cartCount == Len(cart)

RECURSIVE SumPrices(_, _)
SumPrices(c, i) == IF i > Len(c) THEN 0 ELSE c[i].price + SumPrices(c, i + 1)

cartTotal == SumPrices(cart, 1)

NameOK(s) == Len(s) > 0 /\ \A i \in 1 .. Len(s) : s[i] \in Letters \cup {" "}

PhoneOK(s) == Len(s) > 0 /\ \A i \in 1 .. Len(s) : s[i] \in Digits

\* the gate without its cart test
isCheckoutValidNoCart == NameOK(customer.name) /\ PhoneOK(customer.phone)

isCheckoutValid == NameOK(customer.name) /\ PhoneOK(customer.phone) /\ Len(cart) > 0

\* ----------------------------------------------------------------- helpers
RECURSIVE FindLessonFrom(_, _, _)
FindLessonFrom(ls, subject, i) ==
  IF i > Len(ls) THEN 0
  ELSE IF ls[i].subject = subject THEN i
  ELSE FindLessonFrom(ls, subject, i + 1)

FindLesson(ls, subject) == FindLessonFrom(ls, subject, 1)

RECURSIVE FindLocFrom(_, _, _)
FindLocFrom(locs, city, i) ==
  IF i > Len(locs) THEN 0
  ELSE IF locs[i].city = city THEN i
  ELSE FindLocFrom(locs, city, i + 1)

FindLoc(locs, city) == FindLocFrom(locs, city, 1)

RECURSIVE FindIndexFrom(_, _, _)
FindIndexFrom(c, item, i) ==
  IF i > Len(c) THEN 0
  ELSE IF c[i].subject = item.subject /\ c[i].city = item.city THEN i
  ELSE FindIndexFrom(c, item, i + 1)

\* findIndex searching from the end: the last matching entry
FindLastIndex(c, item) ==
  LET hits == { i \in 1 .. Len(c) : c[i].subject = item.subject /\ c[i].city = item.city }
  IN IF hits = {} THEN 0 ELSE CHOOSE i \in hits : \A n \in hits : n <= i

FindIndex(c, item) == FindIndexFrom(c, item, 1)

Splice(c, i) == SubSeq(c, 1, i - 1) \o SubSeq(c, i + 1, Len(c))

Matches(i, item) == i.subject = item.subject /\ i.city = item.city

FilterOut(c, item) == SelectSeq(c, LAMBDA i : ~Matches(i, item))

\* lessons after adding n to the spaces of the location (subject, city) found
\* the way the handlers find it; lessons unchanged when a find comes up empty
\* (the handler throws on the undefined value before it writes anything).
Restore(ls, subject, city, n) ==
  LET li == FindLesson(ls, subject)
  IN IF li = 0 THEN ls
     ELSE LET ci == FindLoc(ls[li].locations, city)
          IN IF ci = 0 THEN ls
             ELSE [ls EXCEPT ![li].locations[ci].spaces = @ + n]

\* the spaces counters explored: up to MaxSpaces
WithinCap(ls) ==
  \A l \in 1 .. Len(ls) : \A j \in 1 .. Len(ls[l].locations) :
    ls[l].locations[j].spaces <= MaxSpaces

\* -------------------------------------------------------------------- Init
Init ==
  /\ lessons = << >>
  /\ selectedSubject = 0
  /\ view = "subjects"
  /\ cart = << >>
  /\ customer = [name |-> EmptyStr, phone |-> EmptyStr]
  /\ orderMessage = ""
  /\ alert = NoAlert
  /\ loadPc = "created"
  /\ loadResp = "none"
  /\ served = << >>
  /\ pc = [p \in Frames |-> "idle"]
  /\ resp = [p \in Frames |-> "none"]
  /\ items = [p \in Frames |-> << >>]
  /\ idx = [p \in Frames |-> 0]
  /\ posted = [p \in Frames |-> NoBody]
  /\ puts = [p \in Frames |-> << >>]
  /\ searchQuery = EmptyStr
  /\ subjectsSortDir = "asc"
  /\ sortOption = "location"
  /\ sortDir = "asc"
  /\ suggestions = << >>
  /\ ordered = [pair \in LayoutPairs |-> 0]

\* ---------------------------------------------------------- catalog loading
\* alert() blocks the page's only thread until the dialog is dismissed
DismissAlert ==
  /\ alert # NoAlert
  /\ alert' = NoAlert
  /\ UNCHANGED << lessons, selectedSubject, view, cart, customer, orderMessage,
                  loadVars, checkoutVars, viewVars >>

Mounted ==
  /\ loadPc = "created"
  /\ loadPc' = "pending"
  /\ UNCHANGED << uiVars, loadResp, served, checkoutVars, viewVars >>

LoadRespond(cs) ==
  /\ loadPc = "pending"
  /\ loadResp = "none"
  /\ \/ \E c \in cs : loadResp' = "ok" /\ served' = c
     \/ loadResp' \in {"http_error", "network_error"} /\ UNCHANGED served
  /\ UNCHANGED << uiVars, loadPc, checkoutVars, viewVars >>

\* loadLessons with an empty catch block: a failed request goes unreported
LoadLessonsSilent ==
  /\ alert = NoAlert
  /\ loadPc = "pending"
  /\ loadResp # "none"
  /\ loadPc' = "done"
  /\ loadResp' = "none"
  /\ IF loadResp = "ok"
     THEN lessons' = served /\ UNCHANGED alert
     ELSE UNCHANGED << alert, lessons >>
  /\ UNCHANGED << selectedSubject, view, cart, customer, orderMessage,
                  served, checkoutVars, viewVars >>

LoadLessons ==
  /\ alert = NoAlert
  /\ loadPc = "pending"
  /\ loadResp # "none"
  /\ loadPc' = "done"
  /\ loadResp' = "none"
  /\ IF loadResp = "ok"
     THEN lessons' = served /\ UNCHANGED alert
     ELSE alert' = LoadAlert /\ UNCHANGED lessons
  /\ UNCHANGED << selectedSubject, view, cart, customer, orderMessage,
                  served, checkoutVars, viewVars >>

\* -------------------------------------------------------------- navigation
SelectSubject(l) ==
  /\ selectedSubject' = l
  /\ view' = "locations"
  /\ UNCHANGED << lessons, cart, customer, orderMessage, alert,
                  loadVars, checkoutVars, viewVars >>

\* ---------------------------------------------------------- cart operations
\* addToCart with the guard off by one: spaces < 0 instead of spaces <= 0
AddToCartOffByOne(j) ==
  LET loc == lessons[selectedSubject].locations[j]
  IN IF loc.spaces < 0
     THEN UNCHANGED vars
     ELSE /\ lessons' = [lessons EXCEPT ![selectedSubject].locations[j].spaces = @ - 1]
          /\ cart' = Append(cart, [subject |-> lessons[selectedSubject].subject,
                                   city |-> loc.city, price |-> loc.price])
          /\ UNCHANGED << selectedSubject, view, customer, orderMessage, alert,
                          loadVars, checkoutVars, viewVars >>

AddToCart(j) ==
  LET loc == lessons[selectedSubject].locations[j]
  IN IF loc.spaces <= 0
     THEN UNCHANGED vars
     ELSE /\ lessons' = [lessons EXCEPT ![selectedSubject].locations[j].spaces = @ - 1]
          /\ cart' = Append(cart, [subject |-> lessons[selectedSubject].subject,
                                   city |-> loc.city, price |-> loc.price])
          /\ UNCHANGED << selectedSubject, view, customer, orderMessage, alert,
                          loadVars, checkoutVars, viewVars >>

RemoveOne(item) ==
  LET index == FindIndex(cart, item)
  IN IF index # 0
     THEN /\ cart' = Splice(cart, index)
          /\ lessons' = Restore(lessons, item.subject, item.city, 1)
          /\ UNCHANGED << selectedSubject, view, customer, orderMessage, alert,
                          loadVars, checkoutVars, viewVars >>
     ELSE UNCHANGED vars

RemoveAll(item) ==
  LET count == item.quantity
  IN /\ cart' = FilterOut(cart, item)
     /\ lessons' = Restore(lessons, item.subject, item.city, count)
     /\ UNCHANGED << selectedSubject, view, customer, orderMessage, alert,
                     loadVars, checkoutVars, viewVars >>

\* the (subject, city) pairs of the loaded catalog
CatalogPairs ==
  UNION { { [subject |-> lessons[l].subject, city |-> lessons[l].locations[j].city] :
              j \in 1 .. Len(lessons[l].locations) } : l \in 1 .. Len(lessons) }

\* ------------------------------------------------------------ checkout form
\* the name and phone inputs, bound to customer.name and customer.phone
EditCustomer(c) ==
  /\ customer' = c
  /\ UNCHANGED << lessons, selectedSubject, view, cart, orderMessage, alert,
                  loadVars, checkoutVars, viewVars >>

\* ----------------------------------------------------------------- checkout
Free(p) == pc[p] = "idle"

Order ==
  [sent |-> TRUE, name |-> customer.name, phone |-> customer.phone,
   items |-> groupedCart, total |-> cartTotal]

\* checkout up to its first await: the validation gate and the order POST
Checkout(p) ==
  /\ Free(p)
  /\ IF ~isCheckoutValid
     THEN UNCHANGED vars
     ELSE /\ posted' = [posted EXCEPT ![p] = Order]
          /\ pc' = [pc EXCEPT ![p] = "post"]
          /\ resp' = [resp EXCEPT ![p] = "none"]
          /\ items' = [items EXCEPT ![p] = << >>]
          /\ idx' = [idx EXCEPT ![p] = 0]
          /\ puts' = [puts EXCEPT ![p] = << >>]
          /\ UNCHANGED << uiVars, loadVars, viewVars >>

Outcomes == { "ok", "http_error", "network_error" }

\* the backend (or the network) answers the request checkout p is awaiting
Respond(p, o) ==
  /\ pc[p] \in {"post", "put"}
  /\ resp[p] = "none"
  /\ resp' = [resp EXCEPT ![p] = o]
  /\ UNCHANGED << uiVars, loadVars, viewVars, pc, items, idx, posted, puts >>

\* the invocation is over: its frame and its requests are gone
Return(p) ==
  /\ pc' = [pc EXCEPT ![p] = "idle"]
  /\ items' = [items EXCEPT ![p] = << >>]
  /\ idx' = [idx EXCEPT ![p] = 0]
  /\ posted' = [posted EXCEPT ![p] = NoBody]
  /\ puts' = [puts EXCEPT ![p] = << >>]

\* the catch block
Alert(p) ==
  /\ alert' = OrderAlert
  /\ Return(p)
  /\ UNCHANGED << lessons, selectedSubject, view, cart, customer, orderMessage >>

\* the statements after the PUT loop, the customer form left as typed
FinishKeepsForm(p) ==
  /\ orderMessage' = OrderSubmitted
  /\ cart' = << >>
  /\ customer' = customer
  /\ view' = "checkout"
  /\ Return(p)
  /\ UNCHANGED << lessons, selectedSubject, alert >>

\* the statements after the PUT loop
Finish(p) ==
  /\ orderMessage' = OrderSubmitted
  /\ cart' = << >>
  /\ customer' = [name |-> EmptyStr, phone |-> EmptyStr]
  /\ view' = "checkout"
  /\ Return(p)
  /\ UNCHANGED << lessons, selectedSubject, alert >>

\* the body of a PUT for a grouped item, the spaces read from the location now
PutBody(item) ==
  LET li == FindLesson(lessons, item.subject)
      ci == FindLoc(lessons[li].locations, item.city)
  IN [subject |-> item.subject, city |-> item.city,
      spaces |-> lessons[li].locations[ci].spaces]

\* the PUT loop without its await: the PUTs of items k .. are all sent at once
LoopFromBatched(p, its, k) ==
  IF k > Len(its)
  THEN Finish(p)
  ELSE /\ items' = [items EXCEPT ![p] = its]
       /\ puts' = [puts EXCEPT ![p] =
            @ \o [n \in 1 .. Len(its) - k + 1 |-> PutBody(its[k + n - 1])]]
       /\ pc' = [pc EXCEPT ![p] = "put"]
       /\ idx' = [idx EXCEPT ![p] = Len(its)]
       /\ UNCHANGED << uiVars, posted >>

\* iteration k of the PUT loop over the array its, up to the await
LoopFrom(p, its, k) ==
  IF k > Len(its)
  THEN Finish(p)
  ELSE LET item == its[k]
           li == FindLesson(lessons, item.subject)
           ci == IF li = 0 THEN 0 ELSE FindLoc(lessons[li].locations, item.city)
       IN IF ci = 0
          THEN Alert(p)
          ELSE /\ items' = [items EXCEPT ![p] = its]
               /\ puts' = [puts EXCEPT ![p] = Append(@, PutBody(item))]
               /\ pc' = [pc EXCEPT ![p] = "put"]
               /\ idx' = [idx EXCEPT ![p] = k]
               /\ UNCHANGED << uiVars, posted >>

\* checkout resuming with a retry: a PUT answered with an error status is sent again
ResumeRetrying(p) ==
  /\ alert = NoAlert
  /\ resp[p] # "none"
  /\ resp' = [resp EXCEPT ![p] = "none"]
  /\ UNCHANGED << loadVars, viewVars >>
  /\ IF pc[p] = "post"
     THEN IF resp[p] = "ok"
          THEN LoopFrom(p, groupedCart, 1)
          ELSE Alert(p)
     ELSE IF resp[p] = "network_error"
          THEN Alert(p)
          ELSE IF resp[p] = "http_error"
               THEN LoopFrom(p, items[p], idx[p])
               ELSE LoopFrom(p, items[p], idx[p] + 1)

\* checkout resumes with the response it was awaiting
Resume(p) ==
  /\ alert = NoAlert
  /\ resp[p] # "none"
  /\ resp' = [resp EXCEPT ![p] = "none"]
  /\ UNCHANGED << loadVars, viewVars >>
  /\ IF pc[p] = "post"
     THEN IF resp[p] = "ok"
          THEN LoopFrom(p, groupedCart, 1)
          ELSE Alert(p)
     ELSE IF resp[p] = "network_error"
          THEN Alert(p)
          ELSE LoopFrom(p, items[p], idx[p] + 1)

\* The handlers the user triggers run only while no alert dialog is up.  The
\* cart is explored up to cap entries and the spaces counters up to MaxSpaces.
ClickSubject == alert = NoAlert /\ \E l \in 1 .. Len(lessons) : SelectSubject(l)

ClickAdd(cap) ==
  /\ alert = NoAlert
  /\ selectedSubject # 0
  /\ Len(cart) < cap
  /\ \E j \in 1 .. Len(lessons[selectedSubject].locations) : AddToCart(j)

ClickRemoveOne ==
  alert = NoAlert /\ \E item \in CatalogPairs : RemoveOne(item) /\ WithinCap(lessons')

ClickRemoveAll ==
  alert = NoAlert /\ \E item \in Groups : RemoveAll(item) /\ WithinCap(lessons')

\* ================================================================ the views
MaxLessons == 2      \* lessons of a catalog served to the search and sort views
MaxSuggestions == 6  \* slice(0, 6) in updateSuggestions

LowerCase ==
  << "a", "b", "c", "d", "e", "f", "g", "h", "i", "j", "k", "l", "m",
     "n", "o", "p", "q", "r", "s", "t", "u", "v", "w", "x", "y", "z" >>
UpperCase ==
  << "A", "B", "C", "D", "E", "F", "G", "H", "I", "J", "K", "L", "M",
     "N", "O", "P", "Q", "R", "S", "T", "U", "V", "W", "X", "Y", "Z" >>

\* String.prototype.toLowerCase, one character
LowerOf ==
  [ch \in { UpperCase[n] : n \in 1 .. 26 } |->
     LowerCase[CHOOSE n \in 1 .. 26 : UpperCase[n] = ch]]

Lower(ch) == IF ch \in DOMAIN LowerOf THEN LowerOf[ch] ELSE ch

ToLowerCase(s) == [i \in 1 .. Len(s) |-> Lower(s[i])]

\* String.prototype.includes
Includes(s, t) ==
  \E i \in 0 .. Len(s) - Len(t) : SubSeq(s, i + 1, i + Len(t)) = t

\* the characters in UTF-16 code unit order
CodeUnits ==
  << " ", "-", "0", "1", "2", "3", "4", "5", "6", "7", "8", "9" >> \o UpperCase \o LowerCase

CodeOf ==
  [ch \in { CodeUnits[n] : n \in 1 .. Len(CodeUnits) } |->
     CHOOSE n \in 1 .. Len(CodeUnits) : CodeUnits[n] = ch]

Code(ch) == CodeOf[ch]

\* the relational operators < and > on strings: -1, 0 or 1 as a is less than,
\* equal to or greater than b by code units
RECURSIVE CompareStrings(_, _, _)
CompareStrings(a, b, i) ==
  IF i > Len(a) /\ i > Len(b) THEN 0
  ELSE IF i > Len(a) THEN -1
  ELSE IF i > Len(b) THEN 1
  ELSE IF Code(a[i]) < Code(b[i]) THEN -1
  ELSE IF Code(a[i]) > Code(b[i]) THEN 1
  ELSE CompareStrings(a, b, i + 1)

\* the collation order of the characters, case apart: punctuation, digits, letters
Collation ==
  << " ", "-", "0", "1", "2", "3", "4", "5", "6", "7", "8", "9" >> \o LowerCase

PrimaryOf ==
  [ch \in { Collation[n] : n \in 1 .. Len(Collation) } |->
     CHOOSE n \in 1 .. Len(Collation) : Collation[n] = ch]

Primary(ch) == PrimaryOf[Lower(ch)]

RECURSIVE ComparePrimary(_, _, _)
ComparePrimary(a, b, i) ==
  IF i > Len(a) /\ i > Len(b) THEN 0
  ELSE IF i > Len(a) THEN -1
  ELSE IF i > Len(b) THEN 1
  ELSE IF Primary(a[i]) < Primary(b[i]) THEN -1
  ELSE IF Primary(a[i]) > Primary(b[i]) THEN 1
  ELSE ComparePrimary(a, b, i + 1)

\* strings equal but for case: the first difference decides, lower case first
RECURSIVE CompareCase(_, _, _)
CompareCase(a, b, i) ==
  IF i > Len(a) THEN 0
  ELSE IF a[i] = b[i] THEN CompareCase(a, b, i + 1)
  ELSE IF a[i] = Lower(a[i]) THEN -1
  ELSE 1

\* String.prototype.localeCompare in the default collation: the letters decide
\* before their case does
LocaleCompare(a, b) ==
  LET primary == ComparePrimary(a, b, 1)
  IN IF primary # 0 THEN primary ELSE CompareCase(a, b, 1)

\* Array.prototype.sort, which is stable: the element at position i goes after
\* the elements the comparator puts before it and the equal ones ahead of it.
\* cmp[j, i] is what the comparator returns for the elements at j and i.
StableSort(arr, cmp) ==
  LET rank == [i \in 1 .. Len(arr) |->
                 Cardinality({ j \in 1 .. Len(arr) :
                                 \/ cmp[j, i] < 0
                                 \/ cmp[j, i] = 0 /\ j < i })]
  IN [r \in 1 .. Len(arr) |-> arr[CHOOSE i \in 1 .. Len(arr) : rank[i] = r - 1]]

\* Array.prototype.reverse
Reverse(arr) == [i \in 1 .. Len(arr) |-> arr[Len(arr) + 1 - i]]

\* the callback of the filter in orderedFilteredLessons
LessonMatches(lesson, term) ==
  LET subjectMatch == Includes(ToLowerCase(lesson.subject), term)
      cityMatch == \E j \in 1 .. Len(lesson.locations) :
                     Includes(ToLowerCase(lesson.locations[j].city), term)
  IN term = EmptyStr \/ subjectMatch \/ cityMatch

\* An array of objects is the sequence of their positions in the array the
\* objects come from: the lesson objects of this.lessons, the location objects
\* of selectedSubject.locations.

\* the filter matching the text as typed, toLowerCase left off the term
FilteredCaseSensitive(ls, query) ==
  LET term == query
  IN SelectSeq([i \in 1 .. Len(ls) |-> i], LAMBDA i : LessonMatches(ls[i], term))

Filtered(ls, query) ==
  LET term == ToLowerCase(query)
  IN SelectSeq([i \in 1 .. Len(ls) |-> i], LAMBDA i : LessonMatches(ls[i], term))

OrderedFilteredLessonsOf(ls, query, dir) ==
  LET filtered == Filtered(ls, query)
      sorted == StableSort(filtered,
                  [a, b \in 1 .. Len(filtered) |->
                     LocaleCompare(ls[filtered[a]].subject, ls[filtered[b]].subject)])
  IN IF dir = "asc" THEN sorted ELSE Reverse(sorted)

orderedFilteredLessons == OrderedFilteredLessonsOf(lessons, searchQuery, subjectsSortDir)

\* aVal and bVal of the comparator in sortedLocations, compared
CompareBy(subject, a, b, option) ==
  IF option = "location" THEN CompareStrings(ToLowerCase(a.city), ToLowerCase(b.city), 1)
  ELSE IF option = "price" THEN (IF a.price > b.price THEN 1 ELSE IF a.price < b.price THEN -1 ELSE 0)
  ELSE IF option = "spaces" THEN (IF a.spaces > b.spaces THEN 1 ELSE IF a.spaces < b.spaces THEN -1 ELSE 0)
  ELSE CompareStrings(ToLowerCase(subject), ToLowerCase(subject), 1)

\* sortedLocations with the direction left out of the comparator
SortedLocationsUndirected(ls, sel, option, d) ==
  IF sel = 0 THEN << >>
  ELSE LET locs == ls[sel].locations
           arr == [j \in 1 .. Len(locs) |-> j]
       IN StableSort(arr, [a, b \in 1 .. Len(arr) |->
                            CompareBy(ls[sel].subject, locs[a], locs[b], option)])

SortedLocationsOf(ls, sel, option, d) ==
  IF sel = 0 THEN << >>
  ELSE LET locs == ls[sel].locations
           arr == [j \in 1 .. Len(locs) |-> j]
           dir == IF d = "asc" THEN 1 ELSE -1
       IN StableSort(arr, [a, b \in 1 .. Len(arr) |->
                            CompareBy(ls[sel].subject, locs[a], locs[b], option) * dir])

sortedLocations == SortedLocationsOf(lessons, selectedSubject, sortOption, sortDir)

\* ------------------------------------------------------------- suggestions
RECURSIVE FlatMapCities(_, _)
FlatMapCities(ls, l) ==
  IF l > Len(ls) THEN << >>
  ELSE [j \in 1 .. Len(ls[l].locations) |-> ls[l].locations[j].city]
         \o FlatMapCities(ls, l + 1)

\* [...new Set(arr)]: the first occurrence of each string, in order
SetOf(arr) ==
  LET first == { i \in 1 .. Len(arr) : \A j \in 1 .. i - 1 : arr[j] # arr[i] }
      keep == SelectSeq([i \in 1 .. Len(arr) |-> i], LAMBDA i : i \in first)
  IN [n \in 1 .. Len(keep) |-> arr[keep[n]]]

\* arr.slice(0, n)
Slice(arr, n) == SubSeq(arr, 1, IF Len(arr) < n THEN Len(arr) ELSE n)

\* updateSuggestions without the Set: the matches as they come, repeats kept
SuggestionsWithRepeats(ls, query) ==
  LET term == ToLowerCase(query)
      subjects == SelectSeq([l \in 1 .. Len(ls) |-> ls[l].subject],
                            LAMBDA t : Includes(ToLowerCase(t), term))
      cities == SelectSeq(FlatMapCities(ls, 1), LAMBDA c : Includes(ToLowerCase(c), term))
  IN IF term = EmptyStr THEN << >>
     ELSE Slice(subjects \o cities, MaxSuggestions)

SuggestionsOf(ls, query) ==
  LET term == ToLowerCase(query)
      subjects == SelectSeq([l \in 1 .. Len(ls) |-> ls[l].subject],
                            LAMBDA t : Includes(ToLowerCase(t), term))
      cities == SelectSeq(FlatMapCities(ls, 1), LAMBDA c : Includes(ToLowerCase(c), term))
  IN IF term = EmptyStr THEN << >>
     ELSE Slice(SetOf(subjects \o cities), MaxSuggestions)

UpdateSuggestions ==
  /\ suggestions' = SuggestionsOf(lessons, searchQuery)
  /\ UNCHANGED << uiVars, loadVars, checkoutVars, searchQuery, subjectsSortDir,
                  sortOption, sortDir >>

ApplySuggestion(text) ==
  /\ searchQuery' = text
  /\ suggestions' = << >>
  /\ UNCHANGED << uiVars, loadVars, checkoutVars, subjectsSortDir, sortOption, sortDir >>

\* ------------------------------------------------- search and sort controls
\* the inputs bound to searchQuery, subjectsSortDir, sortOption and sortDir
TypeSearch(q) ==
  /\ searchQuery' = q
  /\ UNCHANGED << uiVars, loadVars, checkoutVars, subjectsSortDir, sortOption,
                  sortDir, suggestions >>

SetSubjectsSortDir(d) ==
  /\ subjectsSortDir' = d
  /\ UNCHANGED << uiVars, loadVars, checkoutVars, searchQuery, sortOption,
                  sortDir, suggestions >>

SetSortOption(o) ==
  /\ sortOption' = o
  /\ UNCHANGED << uiVars, loadVars, checkoutVars, searchQuery, subjectsSortDir,
                  sortDir, suggestions >>

SetSortDir(d) ==
  /\ sortDir' = d
  /\ UNCHANGED << uiVars, loadVars, checkoutVars, searchQuery, subjectsSortDir,
                  sortOption, suggestions >>

Directions == { "asc", "desc" }
SortOptions == { "location", "price", "spaces", "subject" }

\* -------------------------------------------------- evaluating the views
\* sort and reverse work in place, on the array they are called on.  What an
\* evaluation leaves in this.lessons, in selectedSubject.locations and in
\* this.cart is what it wrote there.

\* the objects of the array objs in the order of the positions in order
Permute(objs, order) == [r \in 1 .. Len(order) |-> objs[order[r]]]

\* orderedFilteredLessons sorts and reverses filtered, the new array filter
\* returned: nothing is written to this.lessons
LessonsAfterOrderedFiltered(ls, query, dir) == ls

\* sortedLocations with arr = this.selectedSubject.locations, the array itself
\* rather than a copy of it: the sort reorders the lesson's locations
LessonsAfterSortedAliased(ls, sel, option, d) ==
  IF sel = 0 THEN ls
  ELSE [ls EXCEPT ![sel].locations = Permute(@, SortedLocationsOf(ls, sel, option, d))]

\* sortedLocations sorts arr, the copy [...this.selectedSubject.locations]:
\* nothing is written to the lesson's locations
LessonsAfterSortedLocations(ls, sel, option, d) == ls

\* groupedCart counts in groups[key], a copy { ...item, quantity: 0 } of the
\* cart entry: nothing is written to the entries of this.cart
CartAfterGroupedCart(c) == c

\* one rendering: the six computed properties are evaluated
Render ==
  /\ lessons' = LessonsAfterSortedLocations(
                  LessonsAfterOrderedFiltered(lessons, searchQuery, subjectsSortDir),
                  selectedSubject, sortOption, sortDir)
  /\ cart' = CartAfterGroupedCart(cart)
  /\ UNCHANGED << selectedSubject, view, customer, orderMessage, alert,
                  loadVars, checkoutVars, viewVars >>

\* ------------------------------------------------------ the served catalogs
Pool ==
  << [subject |-> <<"A", "b">>,
      locations |-> << [city |-> <<"B", "a">>, price |-> 5, spaces |-> 1],
                       [city |-> <<"a", "b">>, price |-> 5, spaces |-> 2],
                       [city |-> <<"b", "A">>, price |-> 3, spaces |-> 1] >>],
     [subject |-> <<"a", "B">>,
      locations |-> << [city |-> <<"A", "B">>, price |-> 4, spaces |-> 0],
                       [city |-> <<"b", "a">>, price |-> 4, spaces |-> 2],
                       [city |-> <<"a">>, price |-> 6, spaces |-> 2] >>],
     [subject |-> <<"b">>,
      locations |-> << [city |-> <<"B">>, price |-> 2, spaces |-> 1],
                       [city |-> <<"a", "b">>, price |-> 2, spaces |-> 1] >>] >>

\* every list of up to MaxLessons lessons of the pool
ViewCatalogs ==
  UNION { { [l \in 1 .. n |-> Pool[f[l]]] : f \in [1 .. n -> 1 .. Len(Pool)] } :
          n \in 0 .. MaxLessons }

Queries ==
  { EmptyStr, <<"a">>, <<"A">>, <<"B">>, <<"a", "B">>, <<"B", "a">>, <<"z">> }

\* the search box, the sort controls and the views over every served catalog
NextView ==
  \/ Mounted /\ UNCHANGED ordered
  \/ LoadRespond(ViewCatalogs) /\ UNCHANGED ordered
  \/ LoadLessons /\ UNCHANGED ordered
  \/ DismissAlert /\ UNCHANGED ordered
  \/ ClickSubject /\ UNCHANGED ordered
  \/ alert = NoAlert /\ \E q \in Queries : TypeSearch(q) /\ UNCHANGED ordered
  \/ alert = NoAlert /\ UpdateSuggestions /\ UNCHANGED ordered
  \/ alert = NoAlert /\ \E n \in 1 .. Len(suggestions) : ApplySuggestion(suggestions[n]) /\ UNCHANGED ordered
  \/ alert = NoAlert /\ \E d \in Directions : SetSubjectsSortDir(d) /\ UNCHANGED ordered
  \/ alert = NoAlert /\ \E o \in SortOptions : SetSortOption(o) /\ UNCHANGED ordered
  \/ alert = NoAlert /\ \E d \in Directions : SetSortDir(d) /\ UNCHANGED ordered
  \/ Render /\ UNCHANGED ordered

SpecView == Init /\ [][NextView]_vars

\* -------------------------------------------------------------------- Next
\* the whole page, one catalog
Next ==
  \/ Mounted /\ UNCHANGED ordered
  \/ LoadRespond(FullCatalogs) /\ UNCHANGED ordered
  \/ LoadLessons /\ UNCHANGED ordered
  \/ DismissAlert /\ UNCHANGED ordered
  \/ \E p \in Procs, o \in Outcomes : Respond(p, o) /\ UNCHANGED ordered
  \/ \E p \in Procs : Resume(p) /\ UNCHANGED ordered
  \/ ClickSubject /\ UNCHANGED ordered
  \/ ClickAdd(MaxOrder) /\ UNCHANGED ordered
  \/ ClickRemoveOne /\ UNCHANGED ordered
  \/ ClickRemoveAll /\ UNCHANGED ordered
  \/ alert = NoAlert /\ \E c \in Customers : EditCustomer(c) /\ UNCHANGED ordered
  \/ alert = NoAlert /\ \E p \in Procs : Checkout(p) /\ UNCHANGED ordered

Spec == Init /\ [][Next]_vars

\* the catalog load and the cart handlers, every catalog
NextCart ==
  \/ Mounted /\ UNCHANGED ordered
  \/ LoadRespond(Catalogs) /\ UNCHANGED ordered
  \/ LoadLessons /\ UNCHANGED ordered
  \/ DismissAlert /\ UNCHANGED ordered
  \/ ClickSubject /\ UNCHANGED ordered
  \/ ClickAdd(MaxCart) /\ UNCHANGED ordered
  \/ ClickRemoveOne /\ UNCHANGED ordered
  \/ ClickRemoveAll /\ UNCHANGED ordered
  \/ Render /\ UNCHANGED ordered

SpecCart == Init /\ [][NextCart]_vars

\* ===================================================================== claims
\* the locations of the loaded catalog, as <<lesson index, location index>>
Locs ==
  UNION { { <<l, j>> : j \in 1 .. Len(lessons[l].locations) } : l \in 1 .. Len(lessons) }

SubjectAt(k) == lessons[k[1]].subject
CityAt(k) == lessons[k[1]].locations[k[2]].city
SpacesAt(ls, k) == ls[k[1]].locations[k[2]].spaces

\* the positions of the cart entries with this subject and city
Positions(c, subject, city) ==
  { i \in 1 .. Len(c) : c[i].subject = subject /\ c[i].city = city }

CountIn(c, subject, city) == Cardinality(Positions(c, subject, city))

\* the sequence c without its position i
Without(c, i) == [n \in 1 .. Len(c) - 1 |-> IF n < i THEN c[n] ELSE c[n + 1]]

\* ---------------------------------------------------------------------- C1
\* C1: after every sequence of addToCart, removeOne and removeAll calls on a
\* loaded catalog, each location's original spaces equals its current spaces
\* plus the number of cart entries with its subject and city.
C1_Conservation ==
  \A k \in Locs :
    SpacesAt(served, k) = SpacesAt(lessons, k) + CountIn(cart, SubjectAt(k), CityAt(k))

\* ---------------------------------------------------------------------- C2
\* what addToCart on location j of the selected subject must leave behind when
\* the location has spaces left
AddPost(j) ==
  LET k == <<selectedSubject, j>>
  IN /\ cart' = Append(cart, [subject |-> SubjectAt(k), city |-> CityAt(k),
                              price |-> lessons[k[1]].locations[k[2]].price])
     /\ Len(lessons') = Len(lessons)
     /\ \A m \in Locs :
          SpacesAt(lessons', m) = SpacesAt(lessons, m) - (IF m = k THEN 1 ELSE 0)

\* C2: addToCart on a location with spaces <= 0 changes nothing; on a location
\* with spaces > 0 it takes exactly 1 from that location's spaces and appends
\* exactly one cart entry with the selected subject, the location's city and
\* its price.
C2_AddToCart ==
  selectedSubject # 0 =>
    \A j \in 1 .. Len(lessons[selectedSubject].locations) :
      /\ ENABLED AddToCart(j)
      /\ IF SpacesAt(lessons, <<selectedSubject, j>>) <= 0
         THEN ~ENABLED (AddToCart(j) /\ UNCHANGED ordered /\ vars' # vars)
         ELSE ~ENABLED (AddToCart(j) /\ ~AddPost(j))

\* a location served with 2 spaces, selected, emptied by two adds
C2_Witness ==
  /\ selectedSubject # 0
  /\ \E j \in 1 .. Len(lessons[selectedSubject].locations) :
       LET k == <<selectedSubject, j>>
       IN /\ SpacesAt(served, k) = 2
          /\ SpacesAt(lessons, k) = 0
          /\ CountIn(cart, SubjectAt(k), CityAt(k)) = 2

\* ---------------------------------------------------------------------- C3
\* the cart entries reserved for lesson l
ReservedFor(l) == Cardinality({ i \in 1 .. Len(cart) : cart[i].subject = lessons[l].subject })

RECURSIVE SumSpaces(_, _)
SumSpaces(locs, j) ==
  IF j > Len(locs) THEN 0 ELSE locs[j].spaces + SumSpaces(locs, j + 1)

\* C3: every location's spaces is >= 0 and the cart entries reserved for a
\* lesson are at most the lesson's original total spaces.
C3_Reserved ==
  /\ \A k \in Locs : SpacesAt(lessons, k) >= 0
  /\ \A l \in 1 .. Len(lessons) : ReservedFor(l) <= SumSpaces(served[l].locations, 1)

\* ------------------------------------------------------- checkout, step by step
\* checkout p is called and passes the validation gate in this step
Starts(p) == pc[p] = "idle" /\ pc'[p] = "post"

\* checkout p consumes the response it was awaiting in this step
Resumes(p) == resp[p] # "none" /\ resp'[p] = "none"

\* checkout p returns in this step
Ends(p) == pc[p] # "idle" /\ pc'[p] = "idle"

\* checkout p returns in this step through the statements after the loop
Succeeds(p) == Ends(p) /\ alert' = NoAlert

\* checkout p sends a PUT in this step
SendsPut(p) == pc'[p] = "put" /\ puts'[p] # puts[p]

\* the array the PUT loop of checkout p iterates, or is about to iterate
LoopItems(p) == IF pc[p] = "post" THEN groupedCart ELSE items[p]

Failures == { "http_error", "network_error" }

\* ---------------------------------------------------------------------- C4
C4_Step(p) ==
  (Resumes(p) /\ resp[p] \in Failures) =>
    /\ Ends(p)
    /\ alert' = OrderAlert
    /\ cart' = cart
    /\ customer' = customer
    /\ orderMessage' = orderMessage

\* C4: a failed fetch of a checkout, network error or non-2xx response, on the
\* POST or on a PUT, ends the checkout with the alert: no further PUT is sent
\* and cart, customer and orderMessage are left as they were.
C4_FailureAborts == [][\A p \in Procs : C4_Step(p)]_vars

\* ---------------------------------------------------------------------- C5
C5_Step(p) ==
  /\ Starts(p) => posted'[p].sent /\ puts'[p] = << >>
  /\ posted'[p] # posted[p] => Starts(p) \/ Ends(p)
  /\ puts'[p] # puts[p] => SendsPut(p) \/ Ends(p)
  /\ SendsPut(p) =>
       /\ Resumes(p)
       /\ posted[p].sent
       /\ \/ pc[p] = "post" /\ resp[p] = "ok" /\ puts[p] = << >>
          \/ pc[p] = "put" /\ puts[p] # << >>
       /\ Len(puts'[p]) = Len(puts[p]) + 1
       /\ SubSeq(puts'[p], 1, Len(puts[p])) = puts[p]
       /\ Len(puts'[p]) <= Len(items'[p])
       /\ LET k == Len(puts'[p])
          IN /\ puts'[p][k].subject = items'[p][k].subject
             /\ puts'[p][k].city = items'[p][k].city
  /\ pc[p] = "put" => items'[p] = items[p] \/ Ends(p)
  /\ Succeeds(p) => Len(puts[p]) = Len(LoopItems(p))

\* the cart handlers send nothing and touch no checkout in flight
C5_HandlersSendNothing ==
  /\ selectedSubject # 0 =>
       \A j \in 1 .. Len(lessons[selectedSubject].locations) :
         ~ENABLED (AddToCart(j) /\ checkoutVars' # checkoutVars)
  /\ \A item \in CatalogPairs : ~ENABLED (RemoveOne(item) /\ checkoutVars' # checkoutVars)
  /\ \A item \in Groups : ~ENABLED (RemoveAll(item) /\ checkoutVars' # checkoutVars)

\* C5: a checkout sends its POST first, sends no PUT before the POST was
\* answered with success, sends each later PUT only on the response to the
\* PUT before it, one PUT per group of groupedCart in order, all of them by the
\* time it succeeds; addToCart, removeOne and removeAll send nothing.
C5_Ordering == []C5_HandlersSendNothing /\ [][\A p \in Procs : C5_Step(p)]_vars

\* a checkout awaiting the response to its second PUT
C5_Witness == \E p \in Procs : pc[p] = "put" /\ Len(puts[p]) = 2 /\ resp[p] = "none"

\* ---------------------------------------------------------------------- C6
LettersAndSpaces(s) == s # << >> /\ \A i \in 1 .. Len(s) : s[i] \in Letters \cup {" "}
DigitsOnly(s) == s # << >> /\ \A i \in 1 .. Len(s) : s[i] \in Digits

FormValid == LettersAndSpaces(customer.name) /\ DigitsOnly(customer.phone) /\ cart # << >>

\* C6: checkout sends the order POST only when the name is letters and spaces,
\* the phone is digits and the cart is non-empty at the call; otherwise it
\* sends nothing and changes nothing.
C6_Gate ==
  \A p \in Procs :
    pc[p] = "idle" =>
      /\ ENABLED Checkout(p)
      /\ IF FormValid
         THEN ~ENABLED (Checkout(p) /\ ~(pc'[p] = "post" /\ posted'[p].sent))
         ELSE ~ENABLED (Checkout(p) /\ UNCHANGED ordered /\ vars' # vars)

\* a checkout that passed the gate: its POST is out, with a valid name and
\* phone and at least one item
C6_Witness ==
  \E p \in Procs :
    /\ pc[p] = "post"
    /\ posted[p].sent
    /\ LettersAndSpaces(posted[p].name)
    /\ DigitsOnly(posted[p].phone)
    /\ posted[p].items # << >>

\* ---------------------------------------------------------------------- C7
C7_Step(p) ==
  /\ Succeeds(p) =>
       /\ cart' = << >>
       /\ customer' = [name |-> << >>, phone |-> << >>]
       /\ orderMessage' = OrderSubmitted
       /\ Resumes(p)
       /\ Len(puts[p]) = Len(LoopItems(p))
  /\ ((Starts(p) \/ Resumes(p)) /\ ~Succeeds(p)) =>
       /\ cart' = cart
       /\ customer' = customer
       /\ orderMessage' = orderMessage
  /\ (Resumes(p) /\ resp[p] = "ok" /\ Len(puts[p]) = Len(LoopItems(p))) => Succeeds(p)

\* C7: a checkout whose POST and PUTs all succeed ends with the cart empty,
\* the name and phone empty and orderMessage set to the confirmation; a
\* checkout clears the cart and the form only in the step that consumes the
\* response to its last PUT.
C7_SuccessClears == [][\A p \in Procs : C7_Step(p)]_vars

\* a finished order: confirmation shown, cart and form empty, nothing pending
C7_Witness ==
  /\ orderMessage = OrderSubmitted
  /\ cart = << >>
  /\ customer = [name |-> << >>, phone |-> << >>]
  /\ \A p \in Procs : pc[p] = "idle"

\* ---------------------------------------------------------------------- C8
\* what removeOne(item) must leave behind when the cart holds a matching entry
RemoveOnePost(item) ==
  LET first == CHOOSE i \in Positions(cart, item.subject, item.city) :
                 \A n \in Positions(cart, item.subject, item.city) : i <= n
  IN /\ cart' = Without(cart, first)
     /\ Len(lessons') = Len(lessons)
     /\ \A m \in Locs :
          SpacesAt(lessons', m) = SpacesAt(lessons, m)
            + (IF SubjectAt(m) = item.subject /\ CityAt(m) = item.city THEN 1 ELSE 0)

\* C8: removeOne(item) removes the first cart entry with item's subject and
\* city and nothing else, keeps the order of the rest, and adds exactly 1 to the
\* spaces of that location and of no other; with no matching entry it changes
\* nothing.
C8_RemoveOne ==
  \A item \in CatalogPairs :
    /\ ENABLED RemoveOne(item)
    /\ IF Positions(cart, item.subject, item.city) # {}
       THEN ~ENABLED (RemoveOne(item) /\ ~RemoveOnePost(item))
       ELSE ~ENABLED (RemoveOne(item) /\ UNCHANGED ordered /\ vars' # vars)

\* a cart with two entries of one location around an entry of another
C8_Witness ==
  /\ Len(cart) = 3
  /\ Matches(cart[1], cart[3])
  /\ ~Matches(cart[1], cart[2])

\* ---------------------------------------------------------------------- C9
\* what removeAll(item) must leave behind
RemoveAllPost(item) ==
  LET removed == Positions(cart, item.subject, item.city)
  IN /\ cart' = SelectSeq(cart, LAMBDA e : ~(e.subject = item.subject /\ e.city = item.city))
     /\ Len(lessons') = Len(lessons)
     /\ \A m \in Locs :
          SpacesAt(lessons', m) = SpacesAt(lessons, m)
            + (IF SubjectAt(m) = item.subject /\ CityAt(m) = item.city
               THEN Cardinality(removed) ELSE 0)

\* C9: removeAll(group), for a group of the current groupedCart, removes the
\* cart entries with the group's subject and city and no other, and adds the
\* number of entries removed to the spaces of that location and of no other.
C9_RemoveAll ==
  \A item \in Groups :
    /\ ENABLED RemoveAll(item)
    /\ ~ENABLED (RemoveAll(item) /\ ~RemoveAllPost(item))

\* --------------------------------------------------------------------- C10
\* the groups of groupedCart for this subject and city
GroupsFor(subject, city) ==
  { g \in 1 .. Len(groupedCart) :
      groupedCart[g].subject = subject /\ groupedCart[g].city = city }

\* C10: groupedCart holds exactly one group for a (subject, city) pair when
\* the cart has an entry for it and none otherwise, and the group's quantity is
\* the number of cart entries with that subject and city.
C10_Grouping ==
  \A pair \in CatalogPairs :
    LET n == CountIn(cart, pair.subject, pair.city)
        gs == GroupsFor(pair.subject, pair.city)
    IN IF n = 0
       THEN gs = {}
       ELSE /\ Cardinality(gs) = 1
            /\ \A g \in gs : groupedCart[g].quantity = n

\* --------------------------------------------------------------------- C11
RECURSIVE SumGroups(_, _)
SumGroups(gs, g) ==
  IF g > Len(gs) THEN 0 ELSE gs[g].price * gs[g].quantity + SumGroups(gs, g + 1)

\* C11: cartTotal is the sum over the groups of groupedCart of price times
\* quantity, and the total of a POST is that sum over the items of the POST.
C11_Total ==
  /\ cartTotal = SumGroups(groupedCart, 1)
  /\ \A p \in Procs :
       posted[p].sent => posted[p].total = SumGroups(posted[p].items, 1)

\* --------------------------------------------------------------------- C12
\* the same letter, whatever its case
SameLetter(a, b) ==
  a = b \/ \E n \in 1 .. 26 : {a, b} = {LowerCase[n], UpperCase[n]}

\* s contains t case-insensitively
ContainsCI(s, t) ==
  \E i \in 0 .. Len(s) - Len(t) : \A k \in 1 .. Len(t) : SameLetter(s[i + k], t[k])

\* the lessons whose subject or one of whose cities contains the text
Wanted(ls, text) ==
  { i \in 1 .. Len(ls) :
      \/ ContainsCI(ls[i].subject, text)
      \/ \E j \in 1 .. Len(ls[i].locations) : ContainsCI(ls[i].locations[j].city, text) }

Elements(arr) == { arr[n] : n \in 1 .. Len(arr) }

\* C12: orderedFilteredLessons holds exactly the lessons whose subject or one
\* of whose location cities contains the search text case-insensitively, each
\* of them once; with an empty search text it holds every lesson.
C12_Filter ==
  /\ Elements(orderedFilteredLessons) = Wanted(lessons, searchQuery)
  /\ Len(orderedFilteredLessons) = Cardinality(Wanted(lessons, searchQuery))
  /\ searchQuery = EmptyStr => Elements(orderedFilteredLessons) = 1 .. Len(lessons)

\* a text with a capital letter keeps one lesson for a city only and drops another
C12_Witness ==
  /\ searchQuery # ToLowerCase(searchQuery)
  /\ Len(orderedFilteredLessons) < Len(lessons)
  /\ \E n \in 1 .. Len(orderedFilteredLessons) :
       ~ContainsCI(lessons[orderedFilteredLessons[n]].subject, searchQuery)

\* --------------------------------------------------------------------- C13
\* the key sortedLocations compares a location by
KeyOf(loc, option) ==
  IF option = "location" THEN ToLowerCase(loc.city)
  ELSE IF option = "price" THEN loc.price
  ELSE loc.spaces

\* the subjects along a list of lessons
SubjectsAlong(order) == [n \in 1 .. Len(order) |-> lessons[order[n]].subject]

\* the keys along a list of locations of the selected subject
KeysAlong(order, option) ==
  [n \in 1 .. Len(order) |-> KeyOf(lessons[selectedSubject].locations[order[n]], option)]

\* the two lists hold the same objects, each once
SameObjects(a, b) ==
  /\ Len(a) = Len(b)
  /\ Elements(a) = Elements(b)
  /\ Cardinality(Elements(a)) = Len(a)

\* C13: for the same lessons, search text and sort key the descending list is
\* the ascending one reversed, up to the order of elements with equal keys,
\* for orderedFilteredLessons under subjectsSortDir and for sortedLocations
\* under sortDir with the sort options location, price and spaces.
C13_Reverse ==
  /\ LET asc == OrderedFilteredLessonsOf(lessons, searchQuery, "asc")
         desc == OrderedFilteredLessonsOf(lessons, searchQuery, "desc")
     IN SameObjects(asc, desc) /\ SubjectsAlong(desc) = Reverse(SubjectsAlong(asc))
  /\ \A option \in { "location", "price", "spaces" } :
       LET asc == SortedLocationsOf(lessons, selectedSubject, option, "asc")
           desc == SortedLocationsOf(lessons, selectedSubject, option, "desc")
       IN selectedSubject # 0 =>
            /\ SameObjects(asc, desc)
            /\ KeysAlong(desc, option) = Reverse(KeysAlong(asc, option))

\* a subject is open whose locations tie on the sort key, so that the
\* descending list is not the ascending list reversed object for object
C13_Witness ==
  /\ selectedSubject # 0
  /\ sortOption = "price"
  /\ sortDir = "desc"
  /\ sortedLocations # Reverse(SortedLocationsOf(lessons, selectedSubject, sortOption, "asc"))
  /\ Len(orderedFilteredLessons) > 1
  /\ SubjectsAlong(OrderedFilteredLessonsOf(lessons, searchQuery, "asc"))
       # SubjectsAlong(OrderedFilteredLessonsOf(lessons, searchQuery, "desc"))

\* --------------------------------------------------------------------- C14
\* the subjects and the cities of the loaded lessons
CatalogStrings ==
  { lessons[l].subject : l \in 1 .. Len(lessons) }
    \cup UNION { { lessons[l].locations[j].city : j \in 1 .. Len(lessons[l].locations) } :
                 l \in 1 .. Len(lessons) }

\* what updateSuggestions must leave in suggestions
SuggestionsPost ==
  /\ \A i, j \in 1 .. Len(suggestions') : i # j => suggestions'[i] # suggestions'[j]
  /\ Len(suggestions') <= 6
  /\ \A i \in 1 .. Len(suggestions') :
       suggestions'[i] \in CatalogStrings /\ ContainsCI(suggestions'[i], searchQuery)
  /\ searchQuery = EmptyStr => suggestions' = << >>

\* C14: after updateSuggestions, suggestions holds no string twice, holds at
\* most 6 entries, and each entry is a subject or a city of the loaded lessons
\* that contains the search text case-insensitively; for an empty search text
\* suggestions is empty.
C14_Suggestions == [][UpdateSuggestions => SuggestionsPost]_vars

\* updateSuggestions has filled suggestions to the limit although more strings
\* of the catalog match
C14_Witness ==
  /\ searchQuery # EmptyStr
  /\ suggestions = SuggestionsOf(lessons, searchQuery)
  /\ Len(suggestions) = 6
  /\ Cardinality({ t \in CatalogStrings : ContainsCI(t, searchQuery) }) > 6

\* --------------------------------------------------------------------- C15
\* the catalog without its spaces counters
Shape(ls) ==
  [l \in 1 .. Len(ls) |->
     [subject |-> ls[l].subject,
      locations |-> [j \in 1 .. Len(ls[l].locations) |->
                       [city |-> ls[l].locations[j].city,
                        price |-> ls[l].locations[j].price]]]]

\* the step in which loadLessons takes the response to GET /lessons
LoadReturns == loadPc = "pending" /\ loadPc' = "done"

C15_Step ==
  \* GET /lessons is sent at startup and never again
  /\ loadPc' = "pending" /\ loadPc # "pending" => loadPc = "created"
  /\ loadPc # "created" => loadPc' # "created"
  \* lessons changes by taking the body of a successful response, or by a cart
  \* handler moving spaces within the catalog it has
  /\ lessons' # lessons =>
       \/ LoadReturns /\ loadResp = "ok" /\ lessons' = served
       \/ Shape(lessons') = Shape(lessons) /\ cart' # cart /\ pc' = pc
  \* a failed request leaves lessons alone and raises the alert
  /\ LoadReturns /\ loadResp # "ok" => lessons' = lessons /\ alert' = LoadAlert

\* C15: the catalog is requested once, at startup; lessons is replaced only by
\* the body of a successful GET /lessons response; when the request fails, by
\* a network error or a non-2xx status, lessons is left as it was and the
\* failure is shown as an alert.
C15_Load == [][C15_Step]_vars

\* the request has failed: the alert is up over the empty catalog
C15_Witness == loadPc = "done" /\ alert = LoadAlert /\ lessons = << >>

\* --------------------------------------------------------------------- C16
RECURSIVE QtyIn(_, _, _)
\* the quantity the groups g .. of its carry for the pair
QtyIn(its, pair, g) ==
  IF g > Len(its) THEN 0
  ELSE (IF its[g].subject = pair.subject /\ its[g].city = pair.city
        THEN its[g].quantity ELSE 0) + QtyIn(its, pair, g + 1)

\* the history of the session: a checkout that succeeds adds its order
Record(p) ==
  ordered' = IF Succeeds(p)
             THEN [pair \in LayoutPairs |-> ordered[pair] + QtyIn(posted[p].items, pair, 1)]
             ELSE ordered

RECURSIVE SumOver(_, _)
SumOver(f, S) ==
  IF S = {} THEN 0
  ELSE LET x == CHOOSE x \in S : TRUE IN f[x] + SumOver(f, S \ {x})

\* no checkout is in flight
Quiet == \A p \in Frames : pc[p] = "idle"

ValidCustomers == { c \in Customers : NameOK(c.name) /\ PhoneOK(c.phone) }

\* the page with its orders recorded, the cart left alone while a checkout is
\* in flight, up to MaxSold seats ordered in the session
NextOrders ==
  \/ Mounted /\ UNCHANGED ordered
  \/ LoadRespond(FullCatalogs) /\ UNCHANGED ordered
  \/ LoadLessons /\ UNCHANGED ordered
  \/ DismissAlert /\ UNCHANGED ordered
  \/ \E p \in Procs, o \in Outcomes : Respond(p, o) /\ UNCHANGED ordered
  \/ \E p \in Procs : Resume(p) /\ Record(p)
  \/ ClickSubject /\ UNCHANGED ordered
  \/ Quiet /\ ClickAdd(MaxOrder) /\ UNCHANGED ordered
  \/ Quiet /\ ClickRemoveOne /\ UNCHANGED ordered
  \/ Quiet /\ ClickRemoveAll /\ UNCHANGED ordered
  \/ alert = NoAlert /\ \E c \in ValidCustomers : EditCustomer(c) /\ UNCHANGED ordered
  \/ /\ alert = NoAlert
     /\ SumOver(ordered, LayoutPairs) + Len(cart) <= MaxSold
     /\ \E p \in Procs : Checkout(p) /\ UNCHANGED ordered

SpecOrders == Init /\ [][NextOrders]_vars

\* the PUT checkout p sends in this step
LastPut(p) == puts'[p][Len(puts'[p])]

\* the location of the loaded catalog a PUT names
LocOf(body) == CHOOSE k \in Locs : SubjectAt(k) = body.subject /\ CityAt(k) = body.city

C16_Step(p) ==
  SendsPut(p) =>
    LET body == LastPut(p)
        pair == [subject |-> body.subject, city |-> body.city]
    IN /\ body.spaces = SpacesAt(lessons, LocOf(body))
       /\ body.spaces = SpacesAt(served, LocOf(body))
                          - QtyIn(posted[p].items, pair, 1) - ordered[pair]

\* C16: each PUT of a checkout carries the local spaces of its location at the
\* moment the PUT is issued, and, no cart operation running while the checkout
\* is in flight, that value is the location's loaded spaces minus the quantity
\* ordered for the location in this order and in the earlier successful orders
\* of the session.
C16_PutSpaces == [][\A p \in Procs : C16_Step(p)]_vars

\* --------------------------------------------------------------------- C17
\* the positions 1 .. n in order
Identity(n) == [i \in 1 .. n |-> i]

RespondStep(p) == \E o \in Outcomes : Respond(p, o) /\ UNCHANGED ordered

\* the event loop runs the continuation of checkout p
ResumeStep(p) == Resume(p) /\ UNCHANGED ordered

\* the page with a customer who fills the form in validly
NextLive ==
  \/ Mounted /\ UNCHANGED ordered
  \/ LoadRespond(FullCatalogs) /\ UNCHANGED ordered
  \/ LoadLessons /\ UNCHANGED ordered
  \/ DismissAlert /\ UNCHANGED ordered
  \/ \E p \in Procs : RespondStep(p)
  \/ \E p \in Procs : ResumeStep(p)
  \/ ClickSubject /\ UNCHANGED ordered
  \/ ClickAdd(MaxOrder) /\ UNCHANGED ordered
  \/ ClickRemoveOne /\ UNCHANGED ordered
  \/ ClickRemoveAll /\ UNCHANGED ordered
  \/ alert = NoAlert /\ \E c \in ValidCustomers : EditCustomer(c) /\ UNCHANGED ordered
  \/ alert = NoAlert /\ \E p \in Procs : Checkout(p) /\ UNCHANGED ordered

\* every request of a checkout is answered, and the event loop runs the
\* continuation that waits for the answer
SpecLive ==
  /\ Init
  /\ [][NextLive]_vars
  /\ \A p \in Procs : WF_vars(RespondStep(p)) /\ WF_vars(ResumeStep(p))

C18_Step(p) ==
  \* one POST: the order is sent when checkout starts and at no other time
  /\ posted'[p] # posted[p] => Starts(p) \/ Ends(p)
  \* the n-th PUT is for the n-th item of the array the loop iterates
  /\ SendsPut(p) =>
       /\ puts'[p] = Append(puts[p], LastPut(p))
       /\ Len(puts'[p]) <= Len(items'[p])
       /\ LastPut(p).subject = items'[p][Len(puts'[p])].subject
       /\ LastPut(p).city = items'[p][Len(puts'[p])].city
  /\ puts'[p] # puts[p] => SendsPut(p) \/ Ends(p)
  \* it finishes in the success state or with the alert
  /\ Ends(p) =>
       \/ alert' = OrderAlert
       \/ cart' = << >> /\ orderMessage' = OrderSubmitted /\ view' = "checkout"

\* C18: when every request a checkout issues is answered, every started
\* checkout finishes, in the success state or with the alert, having sent at
\* most 1 POST and at most one PUT for each grouped cart item and no request
\* twice.
C18_Terminates ==
  /\ \A p \in Procs : (pc[p] # "idle") ~> (pc[p] = "idle")
  /\ [][\A p \in Procs : C18_Step(p)]_vars

\* a checkout is awaiting the answer to its second PUT
C18_Witness ==
  \E p \in Procs : pc[p] = "put" /\ Len(puts[p]) = 2 /\ Len(items[p]) = 2

\* --------------------------------------------------------------------- C19
\* the frame a new invocation of checkout takes: the first one free
NextFrame(p) == Free(p) /\ \A q \in Frames : q < p => ~Free(q)

\* the page with the checkout button clicked again while a checkout is pending,
\* the cart left alone meanwhile
NextRace ==
  \/ Mounted /\ UNCHANGED ordered
  \/ LoadRespond(FullCatalogs) /\ UNCHANGED ordered
  \/ LoadLessons /\ UNCHANGED ordered
  \/ DismissAlert /\ UNCHANGED ordered
  \/ \E p \in Racers, o \in Outcomes : Respond(p, o) /\ UNCHANGED ordered
  \/ \E p \in Racers : Resume(p) /\ UNCHANGED ordered
  \/ ClickSubject /\ UNCHANGED ordered
  \/ Quiet /\ ClickAdd(MaxOrder) /\ UNCHANGED ordered
  \/ alert = NoAlert /\ \E c \in ValidCustomers : EditCustomer(c) /\ UNCHANGED ordered
  \/ alert = NoAlert /\ \E p \in Racers : NextFrame(p) /\ Checkout(p) /\ UNCHANGED ordered

SpecRace == Init /\ [][NextRace]_vars

\* the checkouts in flight
InFlight == { p \in Frames : pc[p] # "idle" }

\* C19: at most one checkout is in flight at any time: checkout called while
\* an earlier checkout awaits a response sends no second order POST, and the
\* same cart contents are never submitted as two orders.
C19_OneInFlight ==
  /\ Cardinality(InFlight) <= 1
  /\ \A p, q \in Frames :
       p # q /\ posted[p].sent /\ posted[q].sent => posted[p].items # posted[q].items

\* --------------------------------------------------------------------- C20
C20_Step(p) ==
  Succeeds(p) =>
    \A pair \in CatalogPairs :
      CountIn(cart, pair.subject, pair.city) = QtyIn(posted[p].items, pair, 1)

\* C20: under any interleaving of addToCart, removeOne and removeAll with a
\* checkout in flight, the cart entries discarded when the checkout succeeds
\* are exactly the entries counted in the order the checkout POSTed.
C20_Discards == [][\A p \in Procs : C20_Step(p)]_vars

====
